---- MODULE Spec2Model ----
(***************************************************************************)
(* The subscription state machine and commission ledger of the CRM         *)
(* back end: the tables crm_partner, crm_user_metadata and crm_payment,    *)
(* the triggers of supabase/migrations/00005_fix_race_conditions.sql and   *)
(* the transactions that fire them.                                        *)
(*                                                                         *)
(* Every mutation runs in its own READ COMMITTED transaction.  A           *)
(* transaction keeps the rows it has written (and holds locked) in a       *)
(* private overlay until it commits; its statements see its own overlay    *)
(* over the committed tables.  An UPDATE whose target row matches in the   *)
(* committed table but is locked by another transaction waits, and         *)
(* re-evaluates its WHERE clause on the row as committed once the lock is  *)
(* released.  NOW() is the start time of the transaction.                  *)
(*                                                                         *)
(* The AFTER INSERT row triggers of crm_payment fire in the order of their *)
(* names: trigger_set_converted_at, then trigger_update_partner_revenue.   *)
(*                                                                         *)
(* crm_payment is a bag of rows (the primary key is a fresh uuid, so only  *)
(* the unique index keeps a reference from being stored twice).  raised is *)
(* the error the last step surfaced to its caller, "none" when it          *)
(* surfaced none.                                                          *)
(*                                                                         *)
(* auth_users is the auth service's table of users; prov holds the calls   *)
(* of createUserAtomically in progress, which create an auth user and then *)
(* insert its row into crm_user_metadata.                                  *)
(*                                                                         *)
(* Money: payment amounts are whole currency units, total_revenue is kept  *)
(* in hundredths, so amount * percent / 100.0 is exactly amount * percent  *)
(* hundredths.                                                             *)
(***************************************************************************)
EXTENDS Integers, FiniteSets, Sequences, Bags, TLC

\* ------------------------------------------------------------- bounds
MaxTime == 1

\* SQL NULL of a timestamp column, and of a uuid column
NULL == 0 - 1
NoPartner == "none"

Partners == {"p1", "p2"}
Users == {"u1", "u2"}
UserOrder == <<"u1", "u2">>
Txns == {"t1", "t2"}

\* the charge notifications of the payment processor: a retry of a notification
\* carries the same reference and the same data
Charge1 == [stripe_payment_id |-> "s1", user_id |-> "u1", amount |-> 100, paid_at |-> 0]

Charge2 == [stripe_payment_id |-> "s2", user_id |-> "u1", amount |-> 50, paid_at |-> 1]

Charge3 == [stripe_payment_id |-> "s3", user_id |-> "u2", amount |-> 50, paid_at |-> 0]

Charges == {Charge1, Charge2, Charge3}

\* the emails of the requests; the first two differ only in case
Emails == {"a@x.com", "A@x.com", "b@x.com"}

\* email.toLowerCase(), and the folding under which citext compares
Lower(email) == IF email = "A@x.com" THEN "a@x.com" ELSE email

\* the rows inserted into crm_user_metadata: the user, its email, its referring
\* partner (or none) and the end of its trial
Enroll1 ==
  [user_id |-> "u1", email |-> "a@x.com",
   crm_partner_id |-> "p1", subscription_ends_at |-> 0,
   subscription_status |-> "added"]

Enroll2 ==
  [user_id |-> "u2", email |-> "b@x.com",
   crm_partner_id |-> "p1", subscription_ends_at |-> NULL,
   subscription_status |-> "added"]

Enroll3 ==
  [user_id |-> "u2", email |-> "b@x.com",
   crm_partner_id |-> NoPartner, subscription_ends_at |-> 0,
   subscription_status |-> "added"]


Enrollments == {Enroll1, Enroll2, Enroll3}

\* a request that names a partner that does not exist
Enroll4 ==
  [user_id |-> "u2", email |-> "b@x.com",
   crm_partner_id |-> "p9", subscription_ends_at |-> NULL,
   subscription_status |-> "added"]

\* the row createUserAtomically inserts: its status is 'trial'
Enroll5 ==
  [user_id |-> "u1", email |-> "a@x.com",
   crm_partner_id |-> "p1", subscription_ends_at |-> 0,
   subscription_status |-> "trial"]


\* commission_percent each partner was created with
\* the requests of a status update: the row and the new status
StatusRequests ==
  {[user_id |-> "u1", subscription_status |-> "added"],
   [user_id |-> "u1", subscription_status |-> "active"],
   [user_id |-> "u1", subscription_status |-> "expired"],
   [user_id |-> "u2", subscription_status |-> "added"]}

\* a status update that carries a status outside the domain
TrialRequest == [user_id |-> "u1", subscription_status |-> "trial"]

\* the requests of the admin's user update: the user and the new end of its
\* subscription, one in the past or present and one in the future
AdminUserRequests ==
  {[user_id |-> "u1", subscription_ends_at |-> 0],
   [user_id |-> "u1", subscription_ends_at |-> MaxTime + 1]}

\* the requests of the admin's partner update: the fields the body provides
\* and their values
PartnerRequests ==
  {[partner_id |-> "p1", provided |-> {"commission_percent"},
    commission_percent |-> 20, is_active |-> TRUE, commission_slabs |-> "null"],
   [partner_id |-> "p1", provided |-> {"commission_percent"},
    commission_percent |-> 10, is_active |-> TRUE, commission_slabs |-> "null"],
   [partner_id |-> "p1", provided |-> {"is_active"},
    commission_percent |-> 10, is_active |-> FALSE, commission_slabs |-> "null"]}

\* the values of commission_slabs: none, or a schedule of tiers
Slabs == {"null", "tiers"}

\* the requests of the admin's partner update that carry commission_slabs
SlabRequests ==
  {[partner_id |-> "p1", provided |-> {"commission_slabs"},
    commission_percent |-> 10, is_active |-> TRUE, commission_slabs |-> "tiers"]}

\* the hashes of the passwords a reset generates
NewHashes == {"h1"}

PartnerRate == [p \in Partners |-> IF p = "p1" THEN 10 ELSE 20]



VARIABLES crm_partner, crm_user_metadata, crm_payment, now, txn, raised,
          auth_users, prov

vars == <<crm_partner, crm_user_metadata, crm_payment, now, txn, raised,
          auth_users, prov>>

tables == <<crm_partner, crm_user_metadata, crm_payment>>

\* ------------------------------------------------------------- rows
NoRow ==
  [exists |-> FALSE, email |-> "", crm_partner_id |-> NoPartner,
   converted_at |-> NULL, subscription_status |-> "added",
   subscription_ends_at |-> NULL]

\* auth.users: no user with this id
NoAuthUser == [exists |-> FALSE, email |-> ""]

\* the auth users the rows inserted directly belong to
Registered ==
  [u \in Users |-> [exists |-> TRUE,
                    email |-> IF u = "u1" THEN "a@x.com" ELSE "b@x.com"]]

\* the provisioning requests in progress
Reqs == {"r1", "r2"}

\* a call of createUserAtomically: where it is, the email, the token and the
\* endpoint of its request, the id of the auth user it created, the transaction
\* of its insert
ProvIdle ==
  [pc |-> "idle", email |-> "", role |-> "admin", sub |-> "", endpoint |-> "",
   authUserId |-> "", slot |-> ""]

NoRequests == [r \in Reqs |-> ProvIdle]

NewPartnerRow(percent) ==
  [commission_percent |-> percent, total_revenue |-> 0,
   total_added |-> 0, total_converted |-> 0,
   is_active |-> TRUE, password_hash |-> "h0", commission_slabs |-> "null"]

\* a free connection; the fields of a running transaction are its NEW row,
\* its local variables and the rows it has written and holds locked
Idle ==
  [kind |-> "idle", pc |-> "idle", start |-> 0, user |-> "u1", amount |-> 0,
   sid |-> "s1", paid_at |-> 0, pid |-> NoPartner, rate |-> 0,
   status |-> "added", ends |-> NULL, cand |-> {},
   umW |-> [u \in Users |-> NoRow], umLock |-> {},
   pW |-> [p \in Partners |-> NewPartnerRow(0)], pLock |-> {},
   payW |-> EmptyBag]

\* ------------------------------------------------------------- visibility
VisUm(t, u) ==
  IF u \in txn[t].umLock THEN txn[t].umW[u] ELSE crm_user_metadata[u]

VisPartner(t, p) ==
  IF p \in txn[t].pLock THEN txn[t].pW[p] ELSE crm_partner[p]

UmLockedByOther(t, u) == \E o \in Txns \ {t} : u \in txn[o].umLock

PartnerLockedByOther(t, p) == \E o \in Txns \ {t} : p \in txn[o].pLock

\* ------------------------------------------------------------- pure parts
\* a faulty variant: the triggers' WHERE clause without converted_at IS NULL
AnyRow(row) == row.exists

\* a faulty variant: the WHERE clause taken to match when there is no row
NullOrAbsent(row) == row.converted_at = NULL

\* WHERE ... converted_at IS NULL of both payment triggers
NotYetConverted(row) == row.exists /\ row.converted_at = NULL

\* commission_amount := COALESCE(NEW.amount, 0) * commission_percent / 100.0
Commission(amount, percent) == amount * percent

\* a faulty variant: the commission taken from the partner's revenue
Debit(prow, commission_amount) ==
  [prow EXCEPT !.total_revenue = @ - commission_amount,
               !.total_converted = @ + 1]

\* a faulty variant: a partner with a schedule of tiers is credited by it
CreditBySlabs(prow, commission_amount) ==
  [prow EXCEPT !.total_revenue =
                  IF prow.commission_slabs = "null" THEN @ + commission_amount
                  ELSE @ + 2 * commission_amount,
               !.total_converted = @ + 1]

\* SET total_revenue = total_revenue + commission_amount,
\*     total_converted = total_converted + 1
Credit(prow, commission_amount) ==
  [prow EXCEPT !.total_revenue = @ + commission_amount,
               !.total_converted = @ + 1]

\* a faulty variant: the guard without its check of active -> added
GuardExpiredOnly(old, new) ==
  old.subscription_status = "expired" /\ new.subscription_status = "added"

\* BEFORE UPDATE trigger of crm_user_metadata: TRUE when it raises
prevent_invalid_status_transition(old, new) ==
  \/ old.subscription_status = "expired" /\ new.subscription_status = "added"
  \/ old.subscription_status = "active" /\ new.subscription_status = "added"

\* a faulty variant: the sweeper's WHERE clause with a null end date taken for
\* a date in the past
SweepMatchesNullEnd(row, time) ==
  /\ row.exists
  /\ row.subscription_ends_at < time
  /\ row.subscription_status = "active"

\* a faulty variant: the sweeper's WHERE clause without the status condition
SweepMatchesAnyStatus(row, time) ==
  /\ row.exists
  /\ row.subscription_ends_at # NULL
  /\ row.subscription_ends_at < time

\* WHERE subscription_ends_at < NOW() AND subscription_status = 'active'
SweepMatches(row, time) ==
  /\ row.exists
  /\ row.subscription_ends_at # NULL
  /\ row.subscription_ends_at < time
  /\ row.subscription_status = "active"

\* a faulty variant: the increment is lost
AddNone(prow) == prow

\* SET total_added = total_added + 1
AddOne(prow) == [prow EXCEPT !.total_added = @ + 1]

\* the first row of a scan of crm_user_metadata among the rows in S
RECURSIVE FirstFrom(_, _)
FirstFrom(i, S) == IF UserOrder[i] \in S THEN UserOrder[i] ELSE FirstFrom(i + 1, S)

FirstRow(S) == FirstFrom(1, S)

\* a faulty variant: no CHECK constraint on subscription_status
AnyStatusAllowed(s) == TRUE

\* CHECK (subscription_status = ANY (ARRAY['added', 'active', 'expired']))
StatusAllowed(s) == s \in {"added", "active", "expired"}

\* a faulty variant: no foreign key on crm_partner_id
AnyPartnerResolves(pid) == TRUE

\* FOREIGN KEY (crm_partner_id) REFERENCES crm_partner(id)
PartnerResolves(pid) == pid = NoPartner \/ pid \in Partners

\* the row an enrollment inserts
EnrolledRow(e) ==
  [exists |-> TRUE, email |-> e.email, crm_partner_id |-> e.crm_partner_id,
   converted_at |-> NULL,
   subscription_status |-> e.subscription_status,
   subscription_ends_at |-> e.subscription_ends_at]

PaymentRow(c) ==
  [user_id |-> c.user_id, amount |-> c.amount,
   stripe_payment_id |-> c.stripe_payment_id, paid_at |-> c.paid_at]

\* a faulty variant: no unique index on stripe_payment_id
StripeIdNeverRecorded(s) == FALSE

\* the unique index on crm_payment.stripe_payment_id
StripeIdRecorded(s) ==
  \E p \in BagToSet(crm_payment) : p.stripe_payment_id = s

StripeIdInFlight(t, s) ==
  \E o \in Txns \ {t} : \E p \in BagToSet(txn[o].payW) : p.stripe_payment_id = s

\* ------------------------------------------------------------- transactions
\* a statement of t raises e: the transaction is rolled back
Abort(t, e) ==
  /\ txn' = [txn EXCEPT ![t] = Idle]
  /\ raised' = e
  /\ UNCHANGED <<crm_partner, crm_user_metadata, crm_payment, now, auth_users, prov>>

\* the handler returns error e, or "none", and writes nothing
Respond(e) ==
  /\ raised' = e
  /\ UNCHANGED <<crm_partner, crm_user_metadata, crm_payment, now, txn, auth_users, prov>>

\* ... and the caller that awaits the statement goes on as calls
AbortTo(t, e, calls) ==
  /\ txn' = [txn EXCEPT ![t] = Idle]
  /\ raised' = e
  /\ prov' = calls
  /\ UNCHANGED <<crm_partner, crm_user_metadata, crm_payment, now, auth_users>>

\* a faulty variant: the commit publishes the writes and leaves the transaction
\* open, its row locks held
CommitKeepingLocks(t) ==
  /\ txn[t].pc = "commit"
  /\ crm_user_metadata' =
       [u \in Users |-> IF u \in txn[t].umLock THEN txn[t].umW[u]
                        ELSE crm_user_metadata[u]]
  /\ crm_partner' =
       [p \in Partners |-> IF p \in txn[t].pLock THEN txn[t].pW[p]
                           ELSE crm_partner[p]]
  /\ crm_payment' = crm_payment (+) txn[t].payW
  /\ txn' = [txn EXCEPT ![t].pc = "committed", ![t].payW = EmptyBag]
  /\ raised' = "none"
  /\ UNCHANGED <<now, auth_users, prov>>

Commit(t) ==
  /\ txn[t].pc = "commit"
  /\ crm_user_metadata' =
       [u \in Users |-> IF u \in txn[t].umLock THEN txn[t].umW[u]
                        ELSE crm_user_metadata[u]]
  /\ crm_partner' =
       [p \in Partners |-> IF p \in txn[t].pLock THEN txn[t].pW[p]
                           ELSE crm_partner[p]]
  /\ crm_payment' = crm_payment (+) txn[t].payW
  /\ txn' = [txn EXCEPT ![t] = Idle]
  /\ raised' = "none"
  /\ UNCHANGED <<now, auth_users, prov>>

\* t goes on with record r
Go(t, r) ==
  /\ txn' = [txn EXCEPT ![t] = r]
  /\ raised' = "none"
  /\ UNCHANGED <<crm_partner, crm_user_metadata, crm_payment, now, auth_users, prov>>

\* t goes on with record r, its caller as calls
GoTo(t, r, calls) ==
  /\ txn' = [txn EXCEPT ![t] = r]
  /\ raised' = "none"
  /\ prov' = calls
  /\ UNCHANGED <<crm_partner, crm_user_metadata, crm_payment, now, auth_users>>

\* The update of row u of crm_user_metadata by t: the BEFORE UPDATE guard, then
\* the write under the row lock; r is t after the statement.
UpdateUmRow(t, u, new, r) ==
  IF prevent_invalid_status_transition(VisUm(t, u), new)
  THEN Abort(t, "invalid_transition")
  ELSE Go(t, [r EXCEPT !.umW[u] = new, !.umLock = @ \cup {u}])

\* ------------------------------------------------------------- payment
\* the transaction of the insertion of charge c, started at time
PaymentTxn(c, time) ==
  [Idle EXCEPT !.kind = "payment", !.pc = "insert", !.start = time,
               !.user = c.user_id, !.amount = c.amount,
               !.sid = c.stripe_payment_id, !.paid_at = c.paid_at]

\* INSERT INTO crm_payment: the unique index rejects a recorded reference and
\* waits for an in-flight one
BeginPayment(t, c) ==
  /\ txn[t].kind = "idle"
  /\ c.paid_at <= now
  /\ LET r == PaymentTxn(c, now)
     IN IF StripeIdRecorded(c.stripe_payment_id)
        THEN Abort(t, "crm_payment_stripe_payment_id_key")
        ELSE IF StripeIdInFlight(t, c.stripe_payment_id)
        THEN Go(t, r)
        ELSE Go(t, [r EXCEPT !.pc = "set_converted_at",
                             !.payW = SetToBag({PaymentRow(c)})])

\* the insertion goes on once the in-flight reference is committed or gone
InsertPayment(t) ==
  /\ txn[t].kind = "payment" /\ txn[t].pc = "insert"
  /\ ~StripeIdInFlight(t, txn[t].sid)
  /\ IF StripeIdRecorded(txn[t].sid)
     THEN Abort(t, "crm_payment_stripe_payment_id_key")
     ELSE Go(t, [txn[t] EXCEPT
                   !.pc = "set_converted_at",
                   !.payW = SetToBag({[user_id |-> txn[t].user,
                                       amount |-> txn[t].amount,
                                       stripe_payment_id |-> txn[t].sid,
                                       paid_at |-> txn[t].paid_at]})])

\* trigger_set_converted_at
set_converted_at(t) ==
  /\ txn[t].kind = "payment" /\ txn[t].pc = "set_converted_at"
  /\ LET u == txn[t].user
         row == VisUm(t, u)
         r == [txn[t] EXCEPT !.pc = "update_partner_revenue"]
     IN IF ~NotYetConverted(row)
        THEN Go(t, r)
        ELSE /\ ~UmLockedByOther(t, u)
             /\ UpdateUmRow(t, u,
                  [row EXCEPT !.converted_at = txn[t].paid_at,
                              !.subscription_status = "active"], r)

\* trigger_update_partner_revenue: the conditional UPDATE ... RETURNING
update_partner_revenue(t) ==
  /\ txn[t].kind = "payment" /\ txn[t].pc = "update_partner_revenue"
  /\ LET u == txn[t].user
         row == VisUm(t, u)
     IN IF ~NotYetConverted(row)
        THEN Go(t, [txn[t] EXCEPT !.pc = "commit"])
        ELSE /\ ~UmLockedByOther(t, u)
             /\ UpdateUmRow(t, u, [row EXCEPT !.converted_at = txn[t].start],
                  [txn[t] EXCEPT
                     !.pid = row.crm_partner_id,
                     !.pc = IF row.crm_partner_id = NoPartner THEN "commit"
                            ELSE "fetch_commission"])

\* SELECT COALESCE(p.commission_percent, 0) ... WHERE p.id = partner_id
fetch_commission(t) ==
  /\ txn[t].kind = "payment" /\ txn[t].pc = "fetch_commission"
  /\ Go(t, [txn[t] EXCEPT
              !.rate = VisPartner(t, txn[t].pid).commission_percent,
              !.pc = "credit_partner"])

\* UPDATE crm_partner SET ... WHERE id = partner_id; IF NOT FOUND THEN RAISE
credit_partner(t) ==
  /\ txn[t].kind = "payment" /\ txn[t].pc = "credit_partner"
  /\ LET p == txn[t].pid
     IN IF p \notin Partners
        THEN Abort(t, "partner_not_found")
        ELSE /\ ~PartnerLockedByOther(t, p)
             /\ Go(t, [txn[t] EXCEPT
                  !.pW[p] = Credit(VisPartner(t, p),
                                   Commission(txn[t].amount, txn[t].rate)),
                  !.pLock = @ \cup {p},
                  !.pc = "commit"])

\* ------------------------------------------------------------- enrollment
\* a faulty variant: no unique constraint on email
EmailNeverTaken(email) == FALSE

\* crm_user_metadata_email_key on the citext column: a committed row holds the
\* email, whatever its case
EmailTaken(email) ==
  \E u \in Users :
    /\ crm_user_metadata[u].exists
    /\ Lower(crm_user_metadata[u].email) = Lower(email)

\* ... or a row a transaction in flight has inserted does: the insert waits
EmailInFlight(email) ==
  \E o \in Txns : \E u \in txn[o].umLock :
    /\ ~crm_user_metadata[u].exists
    /\ Lower(txn[o].umW[u].email) = Lower(email)

\* INSERT INTO crm_user_metadata: the CHECK constraint of the new row, then the
\* unique indexes on user_id and on email (which wait for an in-flight row with
\* the same key), then, first of the row's AFTER triggers by name, the foreign
\* key on crm_partner_id
InsertUserRow(t, e, started, failed) ==
  /\ txn[t].kind = "idle"
  /\ LET u == e.user_id
     IN IF ~StatusAllowed(e.subscription_status)
        THEN AbortTo(t, "crm_user_metadata_subscription_status_check", failed)
        ELSE IF crm_user_metadata[u].exists
        THEN AbortTo(t, "crm_user_metadata_user_id_key", failed)
        ELSE IF EmailTaken(e.email)
        THEN AbortTo(t, "crm_user_metadata_email_key", failed)
        ELSE /\ ~UmLockedByOther(t, u)
             /\ ~EmailInFlight(e.email)
             /\ IF ~PartnerResolves(e.crm_partner_id)
                THEN AbortTo(t, "crm_user_metadata_crm_partner_id_fkey", failed)
                ELSE GoTo(t, [Idle EXCEPT
                       !.kind = "enroll", !.pc = "increment_total_added",
                       !.user = u, !.pid = e.crm_partner_id,
                       !.umW[u] = EnrolledRow(e),
                       !.umLock = {u}], started)

\* the insert of a row by a caller the model does not follow
BeginEnroll(t, e) == InsertUserRow(t, e, prov, prov)

\* trigger_increment_total_added
increment_total_added(t) ==
  /\ txn[t].kind = "enroll" /\ txn[t].pc = "increment_total_added"
  /\ LET p == txn[t].pid
     IN IF p = NoPartner
        THEN Go(t, [txn[t] EXCEPT !.pc = "commit"])
        ELSE IF p \notin Partners
        THEN Abort(t, "partner_not_found")
        ELSE /\ ~PartnerLockedByOther(t, p)
             /\ Go(t, [txn[t] EXCEPT !.pW[p] = AddOne(VisPartner(t, p)),
                                     !.pLock = @ \cup {p},
                                     !.pc = "commit"])

\* ------------------------------------------------------------- provisioning
\* The requests of the two provisioning endpoints: the email of the user to
\* create and the token's role and subject.
ProvRequests ==
  [email : Emails, role : {"partner", "admin"}, sub : {"p1"},
   endpoint : {"part_010", "crm_create-user"}]

\* subscription_status of the row the endpoint's createUserAtomically inserts
InsertedStatus(endpoint) ==
  IF endpoint = "crm_create-user" THEN "trial" ELSE "added"

\* serve: partnerId = payload.role === "partner" ? payload.sub : null
PartnerOfToken(role, sub) == IF role = "partner" THEN sub ELSE NoPartner

\* the row createUserAtomically inserts for call c
ProvRow(c) ==
  [user_id |-> c.authUserId, email |-> Lower(c.email),
   crm_partner_id |-> PartnerOfToken(c.role, c.sub),
   subscription_ends_at |-> now + 1,
   subscription_status |-> InsertedStatus(c.endpoint)]

\* SELECT email, user_id FROM crm_user_metadata WHERE email = normalizedEmail:
\* a row is found
ExistingMeta(normalizedEmail) ==
  \E u \in Users :
    /\ crm_user_metadata[u].exists
    /\ Lower(crm_user_metadata[u].email) = Lower(normalizedEmail)

\* createUserAtomically, step 1: the check for an existing row
ProvCheck(r, q) ==
  /\ prov[r].pc = "idle"
  /\ IF ExistingMeta(Lower(q.email))
     THEN Respond("User already exists")
     ELSE /\ prov' = [prov EXCEPT ![r] =
                [ProvIdle EXCEPT !.pc = "createUser", !.email = q.email,
                   !.role = q.role, !.sub = q.sub, !.endpoint = q.endpoint]]
          /\ raised' = "none"
          /\ UNCHANGED <<tables, now, txn, auth_users>>

\* step 2: supabase.auth.admin.createUser, which fails (the email is
\* registered, the service is down) or creates a user with a new id
ProvCreateUser(r) ==
  /\ prov[r].pc = "createUser"
  /\ \/ /\ prov' = [prov EXCEPT ![r] = ProvIdle]
        /\ raised' = "User creation failed"
        /\ UNCHANGED <<tables, now, txn, auth_users>>
     \/ /\ \A u \in Users : auth_users[u].exists => auth_users[u].email # prov[r].email
        /\ \E u \in Users :
             /\ ~auth_users[u].exists
             /\ u = FirstRow({v \in Users : ~auth_users[v].exists})
             /\ auth_users' = [auth_users EXCEPT
                                 ![u] = [exists |-> TRUE, email |-> prov[r].email]]
             /\ prov' = [prov EXCEPT ![r].pc = "insert", ![r].authUserId = u]
        /\ raised' = "none"
        /\ UNCHANGED <<tables, now, txn>>

\* step 3: the insert into crm_user_metadata; an error is thrown to the catch
ProvInsert(r, t) ==
  /\ prov[r].pc = "insert"
  /\ InsertUserRow(t, ProvRow(prov[r]),
                   [prov EXCEPT ![r].pc = "inserting", ![r].slot = t],
                   [prov EXCEPT ![r].pc = "cleanup"])

\* the insert has returned: the row, or the error of its trigger
ProvInserted(r) ==
  /\ prov[r].pc = "inserting"
  /\ txn[prov[r].slot].kind = "idle"
  /\ IF crm_user_metadata[prov[r].authUserId].exists
     THEN /\ prov' = [prov EXCEPT ![r] = ProvIdle]
          /\ raised' = "none"
     ELSE /\ prov' = [prov EXCEPT ![r].pc = "cleanup"]
          /\ raised' = raised
  /\ UNCHANGED <<tables, now, txn, auth_users>>

\* the catch: supabase.auth.admin.deleteUser(authUserId), which deletes the
\* user or fails (deleteError is logged), and the return of the failure
ProvCleanup(r) ==
  /\ prov[r].pc = "cleanup"
  /\ \/ auth_users' = [auth_users EXCEPT ![prov[r].authUserId] = NoAuthUser]
     \/ auth_users' = auth_users
  /\ prov' = [prov EXCEPT ![r] = ProvIdle]
  /\ raised' = "Metadata creation failed"
  /\ UNCHANGED <<tables, now, txn>>

\* ------------------------------------------------------------- status update
BeginStatusUpdate(t, q) ==
  /\ txn[t].kind = "idle"
  /\ Go(t, [Idle EXCEPT !.kind = "status", !.pc = "update",
                        !.user = q.user_id, !.status = q.subscription_status])

\* UPDATE crm_user_metadata SET subscription_status = s WHERE user_id = u, a
\* transaction of one statement: the statement and its commit are one step; the
\* BEFORE UPDATE guard runs before the CHECK constraint of the new row
StatusUpdate(t) ==
  /\ txn[t].kind = "status" /\ txn[t].pc = "update"
  /\ LET u == txn[t].user
         row == crm_user_metadata[u]
         new == [row EXCEPT !.subscription_status = txn[t].status]
     IN IF ~row.exists
        THEN Go(t, Idle)
        ELSE /\ ~UmLockedByOther(t, u)
             /\ IF prevent_invalid_status_transition(row, new)
                THEN Abort(t, "invalid_transition")
                ELSE IF ~StatusAllowed(new.subscription_status)
                THEN Abort(t, "crm_user_metadata_subscription_status_check")
                ELSE /\ crm_user_metadata' = [crm_user_metadata EXCEPT ![u] = new]
                     /\ txn' = [txn EXCEPT ![t] = Idle]
                     /\ raised' = "none"
                     /\ UNCHANGED <<crm_partner, crm_payment, now, auth_users, prov>>

\* ------------------------------------------------------------- expiry sweeper
\* update_expired_subscriptions(): the rows the UPDATE finds in its snapshot
BeginSweep(t) ==
  /\ txn[t].kind = "idle"
  /\ LET found == {u \in Users : SweepMatches(crm_user_metadata[u], now)}
     IN Go(t, [Idle EXCEPT !.kind = "sweep",
                           !.pc = IF found = {} THEN "commit" ELSE "sweep",
                           !.start = now, !.cand = found])

\* the next row found: wait for its lock, evaluate the WHERE clause again on the
\* row as it is now, update it
SweepRow(t) ==
  /\ txn[t].kind = "sweep" /\ txn[t].pc = "sweep"
  /\ LET u == FirstRow(txn[t].cand)
         row == VisUm(t, u)
         rest == txn[t].cand \ {u}
         r == [txn[t] EXCEPT !.cand = rest,
                             !.pc = IF rest = {} THEN "commit" ELSE "sweep"]
     IN /\ ~UmLockedByOther(t, u)
        /\ IF ~SweepMatches(row, txn[t].start)
           THEN Go(t, r)
           ELSE UpdateUmRow(t, u, [row EXCEPT !.subscription_status = "expired"], r)

\* ------------------------------------------------------------- request handlers
\* Each handler reads a row and then, if its request changes the row, updates it
\* by key in a transaction of one statement.  What it writes comes from the
\* request, not from what it read, so the handler is one step, taken when its
\* UPDATE runs (or, when it finds nothing to change, when it reads).

UmLocked(u) == \E t \in Txns : u \in txn[t].umLock

PartnerLocked(p) == \E t \in Txns : p \in txn[t].pLock

\* the admin's user update: subscription_ends_at
AdminUserUpdate(q) ==
  LET u == q.user_id
      row == crm_user_metadata[u]
      new == [row EXCEPT !.subscription_ends_at = q.subscription_ends_at]
  IN IF ~row.exists
     THEN Respond("USER_NOT_FOUND")
     ELSE IF new = row
     THEN Respond("none")
     ELSE /\ ~UmLocked(u)
          /\ IF prevent_invalid_status_transition(row, new)
             THEN Respond("invalid_transition")
             ELSE /\ crm_user_metadata' = [crm_user_metadata EXCEPT ![u] = new]
                  /\ raised' = "none"
                  /\ UNCHANGED <<crm_partner, crm_payment, now, txn, auth_users, prov>>

\* a faulty variant: the partner's row replaced by a new row with the
\* request's values
PartnerReplaced(row, q) ==
  [NewPartnerRow(q.commission_percent) EXCEPT
     !.is_active = q.is_active, !.commission_slabs = q.commission_slabs]

\* updateData applied to the partner's row: the fields the request provides
PartnerUpdated(row, q) ==
  [row EXCEPT
     !.commission_percent =
        IF "commission_percent" \in q.provided
        THEN q.commission_percent ELSE @,
     !.is_active =
        IF "is_active" \in q.provided THEN q.is_active ELSE @,
     !.commission_slabs =
        IF "commission_slabs" \in q.provided THEN q.commission_slabs ELSE @]

\* the admin's partner update: commission_percent and is_active
PartnerUpdate(q) ==
  LET p == q.partner_id
      row == crm_partner[p]
      new == PartnerUpdated(row, q)
  IN IF new = row
     THEN Respond("none")
     ELSE /\ ~PartnerLocked(p)
          /\ crm_partner' = [crm_partner EXCEPT ![p] = new]
          /\ raised' = "none"
          /\ UNCHANGED <<crm_user_metadata, crm_payment, now, txn, auth_users, prov>>

\* the partner's password reset: password_hash
PasswordReset(p, hash) ==
  IF ~crm_partner[p].is_active
  THEN Respond("PARTNER_INACTIVE")
  ELSE /\ ~PartnerLocked(p)
       /\ crm_partner' = [crm_partner EXCEPT ![p].password_hash = hash]
       /\ raised' = "none"
       /\ UNCHANGED <<crm_user_metadata, crm_payment, now, txn, auth_users, prov>>

\* The subscription-status check of user u reads the row; new Date(null) is the
\* epoch, so a row without subscription_ends_at counts as past its end.
BeginStatusCheck(t, u) ==
  /\ txn[t].kind = "idle"
  /\ LET row == crm_user_metadata[u]
     IN IF \/ ~row.exists
           \/ row.subscription_status = "expired"
           \/ ~(row.subscription_ends_at = NULL \/ row.subscription_ends_at < now)
        THEN Respond("none")
        ELSE Go(t, [Idle EXCEPT !.kind = "check", !.pc = "update", !.user = u])

\* ... and then UPDATE ... SET subscription_status = 'expired'
\* WHERE user_id = u AND subscription_status <> 'expired'
StatusCheckUpdate(t) ==
  /\ txn[t].kind = "check" /\ txn[t].pc = "update"
  /\ LET u == txn[t].user
         row == crm_user_metadata[u]
         new == [row EXCEPT !.subscription_status = "expired"]
     IN IF row.subscription_status = "expired"
        THEN Go(t, Idle)
        ELSE /\ ~UmLockedByOther(t, u)
             /\ IF prevent_invalid_status_transition(row, new)
                THEN Abort(t, "invalid_transition")
                ELSE /\ crm_user_metadata' = [crm_user_metadata EXCEPT ![u] = new]
                     /\ txn' = [txn EXCEPT ![t] = Idle]
                     /\ raised' = "none"
                     /\ UNCHANGED <<crm_partner, crm_payment, now, auth_users, prov>>

\* ------------------------------------------------------------- clock
Tick ==
  /\ now < MaxTime
  /\ now' = now + 1
  /\ raised' = "none"
  /\ UNCHANGED <<crm_partner, crm_user_metadata, crm_payment, txn, auth_users, prov>>

\* ------------------------------------------------------------- specification
Init ==
  /\ crm_partner = [p \in Partners |-> NewPartnerRow(PartnerRate[p])]
  /\ crm_user_metadata = [u \in Users |-> NoRow]
  /\ crm_payment = EmptyBag
  /\ now = 0
  /\ txn = [t \in Txns |-> Idle]
  /\ raised = "none"
  /\ auth_users = Registered
  /\ prov = NoRequests

\* the steps that take no request: the clock, the triggers, the commits, and
\* the sweeper
Triggered ==
  \/ Tick
  \/ \E t \in Txns : Commit(t)
  \/ \E t \in Txns : set_converted_at(t)
  \/ \E t \in Txns : update_partner_revenue(t)
  \/ \E t \in Txns : fetch_commission(t)
  \/ \E t \in Txns : credit_partner(t)
  \/ \E t \in Txns : increment_total_added(t)
  \/ \E t \in Txns : BeginSweep(t)
  \/ \E t \in Txns : SweepRow(t)

\* every step but the insertion of a payment row
Steps ==
  \/ Triggered
  \/ \E t \in Txns, e \in Enrollments : BeginEnroll(t, e)
  \/ \E t \in Txns, q \in StatusRequests : BeginStatusUpdate(t, q)
  \/ \E t \in Txns : StatusUpdate(t)

Next ==
  \/ Steps
  \/ \E t \in Txns : InsertPayment(t)
  \/ \E t \in Txns, c \in Charges : BeginPayment(t, c)

Spec == Init /\ [][Next]_vars

\* ------------------------------------------------------------- scenarios
\* Payments delivered one after another: an insertion starts when no other payment
\* is in flight and the earlier charges of its user are recorded.
SeqBeginPayment(t, c) ==
  /\ \A o \in Txns : txn[o].kind # "payment"
  /\ \A d \in Charges :
       (d.user_id = c.user_id /\ d.paid_at < c.paid_at)
         => StripeIdRecorded(d.stripe_payment_id)
  /\ BeginPayment(t, c)

SeqNext ==
  \/ Steps
  \/ \E t \in Txns, c \in Charges : SeqBeginPayment(t, c)

SpecSeq == Init /\ [][SeqNext]_vars

\* The race: u1 is enrolled by p1 (rate 10%), and the two charges of u1 are
\* inserted by two transactions that start together.
RaceInit ==
  /\ crm_partner = [p \in Partners |->
       IF p = Enroll1.crm_partner_id THEN AddOne(NewPartnerRow(PartnerRate[p]))
       ELSE NewPartnerRow(PartnerRate[p])]
  /\ crm_user_metadata = [u \in Users |->
       IF u = Enroll1.user_id THEN EnrolledRow(Enroll1) ELSE NoRow]
  /\ crm_payment = EmptyBag
  /\ now = 0
  /\ txn = [t \in Txns |-> Idle]
  /\ raised = "none"
  /\ auth_users = Registered
  /\ prov = NoRequests

BeginRace ==
  /\ \A t \in Txns : txn[t].kind = "idle"
  /\ Charge1.paid_at <= now /\ Charge2.paid_at <= now
  /\ ~StripeIdRecorded(Charge1.stripe_payment_id)
  /\ ~StripeIdRecorded(Charge2.stripe_payment_id)
  /\ crm_partner["p1"].total_revenue = 0
  /\ crm_partner["p1"].total_converted = 0
  /\ txn' = [t \in Txns |->
       IF t = "t1"
       THEN [PaymentTxn(Charge1, now) EXCEPT
               !.pc = "set_converted_at",
               !.payW = SetToBag({PaymentRow(Charge1)})]
       ELSE [PaymentTxn(Charge2, now) EXCEPT
               !.pc = "set_converted_at",
               !.payW = SetToBag({PaymentRow(Charge2)})]]
  /\ raised' = "none"
  /\ UNCHANGED <<crm_partner, crm_user_metadata, crm_payment, now, auth_users, prov>>

RaceNext ==
  \/ Steps
  \/ BeginRace
  \/ \E t \in Txns : BeginPayment(t, Charge3)

SpecRace == RaceInit /\ [][RaceNext]_vars

\* The sweeper alone, on data the other operations have left: each row is one
\* that enrollment, payment, status update and sweep produce.
SweepRowsOf(u) ==
  IF u = "u1"
  THEN {NoRow}
       \cup {[EnrolledRow(Enroll1) EXCEPT !.subscription_status = x]
               : x \in {"added", "active", "expired"}}
       \cup {[EnrolledRow(Enroll1) EXCEPT !.subscription_status = x,
                                          !.converted_at = Charge1.paid_at]
               : x \in {"active", "expired"}}
  ELSE {NoRow, EnrolledRow(Enroll2), EnrolledRow(Enroll3)}
       \cup {[EnrolledRow(Enroll3) EXCEPT !.subscription_status = x,
                                          !.converted_at = Charge3.paid_at]
               : x \in {"active", "expired"}}
       \cup {[EnrolledRow(Enroll2) EXCEPT !.subscription_status = "active",
                                          !.converted_at = Charge3.paid_at]}

SweepInit ==
  /\ crm_user_metadata \in [Users -> SweepRowsOf("u1") \cup SweepRowsOf("u2")]
  /\ \A u \in Users : crm_user_metadata[u] \in SweepRowsOf(u)
  /\ crm_partner = [p \in Partners |->
       [NewPartnerRow(PartnerRate[p]) EXCEPT
          !.total_added = Cardinality({u \in Users :
             crm_user_metadata[u].exists /\ crm_user_metadata[u].crm_partner_id = p})]]
  /\ crm_payment = SetToBag({PaymentRow(c) : c \in
       {d \in {Charge1, Charge3} : crm_user_metadata[d.user_id].converted_at # NULL}})
  /\ now \in 0..MaxTime
  \* no status request expires u2: a sweep has, after its subscription ended
  /\ crm_user_metadata["u2"].subscription_status = "expired"
       => crm_user_metadata["u2"].subscription_ends_at < now
  /\ txn = [t \in Txns |-> Idle]
  /\ raised = "none"
  /\ auth_users = Registered
  /\ prov = NoRequests

SweepNext ==
  \/ Tick
  \/ \E t \in Txns : BeginSweep(t)
  \/ \E t \in Txns : SweepRow(t)
  \/ \E t \in Txns : Commit(t)

SpecSweep == SweepInit /\ [][SweepNext]_vars

\* The requests the constraints reject, among those of one user that they
\* accept: an enrollment that names a missing partner, the row of
\* createUserAtomically, a status update to 'trial'.
RejectNext ==
  \/ Triggered
  \/ \E t \in Txns, e \in {Enroll1, Enroll4, Enroll5} : BeginEnroll(t, e)
  \/ \E t \in Txns, q \in {[TrialRequest EXCEPT !.subscription_status = "active"],
                            TrialRequest} : BeginStatusUpdate(t, q)
  \/ \E t \in Txns : StatusUpdate(t)
  \/ \E t \in Txns : BeginPayment(t, Charge1)

SpecReject == Init /\ [][RejectNext]_vars

\* The operations the system performs on one user and its partner: enrollment,
\* payments, the sweeper, the subscription-status check and the handlers of the
\* admin and of the partner.
OpsNext ==
  \/ Triggered
  \/ \E t \in Txns : BeginEnroll(t, Enroll1)
  \/ \E t \in Txns, c \in {Charge1, Charge2} : BeginPayment(t, c)
  \/ \E t \in Txns : InsertPayment(t)
  \/ \E t \in Txns : BeginStatusCheck(t, "u1")
  \/ \E t \in Txns : StatusCheckUpdate(t)
  \/ \E q \in AdminUserRequests : AdminUserUpdate(q)
  \/ \E q \in PartnerRequests : PartnerUpdate(q)
  \/ \E h \in NewHashes : PasswordReset("p1", h)

SpecOps == Init /\ [][OpsNext]_vars

\* One referred user and its payments, its partner created with or without
\* commission_slabs and updated by the admin
SlabInit ==
  /\ \E slabs \in Slabs :
       crm_partner = [p \in Partners |->
         [NewPartnerRow(PartnerRate[p]) EXCEPT !.commission_slabs = slabs]]
  /\ crm_user_metadata = [u \in Users |-> NoRow]
  /\ crm_payment = EmptyBag
  /\ now = 0
  /\ txn = [t \in Txns |-> Idle]
  /\ raised = "none"
  /\ auth_users = Registered
  /\ prov = NoRequests

SlabNext ==
  \/ Triggered
  \/ \E t \in Txns : BeginEnroll(t, Enroll1)
  \/ \E t \in Txns : BeginPayment(t, Charge1)
  \/ \E t \in Txns : InsertPayment(t)
  \/ \E q \in SlabRequests \cup
               {r \in PartnerRequests : "commission_percent" \in r.provided} :
       PartnerUpdate(q)

SpecSlabs == SlabInit /\ [][SlabNext]_vars

\* Provisioning alone, two requests at a time, from empty tables
ProvInit ==
  /\ crm_partner = [p \in Partners |-> NewPartnerRow(PartnerRate[p])]
  /\ crm_user_metadata = [u \in Users |-> NoRow]
  /\ crm_payment = EmptyBag
  /\ now = 0
  /\ txn = [t \in Txns |-> Idle]
  /\ raised = "none"
  /\ auth_users = [u \in Users |-> NoAuthUser]
  /\ prov = NoRequests

ProvNext ==
  \/ \E r \in Reqs, q \in ProvRequests : ProvCheck(r, q)
  \/ \E r \in Reqs : ProvCreateUser(r)
  \/ \E r \in Reqs, t \in Txns : ProvInsert(r, t)
  \/ \E t \in Txns : increment_total_added(t)
  \/ \E t \in Txns : Commit(t)
  \/ \E r \in Reqs : ProvInserted(r)
  \/ \E r \in Reqs : ProvCleanup(r)

SpecProvision == ProvInit /\ [][ProvNext]_vars

\* the next statement, trigger or commit of the transaction in slot t
StepOf(t) ==
  \/ InsertPayment(t)
  \/ set_converted_at(t)
  \/ update_partner_revenue(t)
  \/ fetch_commission(t)
  \/ credit_partner(t)
  \/ increment_total_added(t)
  \/ StatusUpdate(t)
  \/ SweepRow(t)
  \/ Commit(t)

\* The transactions that take row locks, on two users of one partner, with the
\* lock manager's guarantee: a transaction that can go on again and again (its
\* lock is released again and again) does go on, because waiters queue.
LiveNext ==
  \/ Triggered
  \/ \E t \in Txns : InsertPayment(t)
  \/ \E t \in Txns : StatusUpdate(t)
  \/ \E t \in Txns, e \in {Enroll1, Enroll2} : BeginEnroll(t, e)
  \/ \E t \in Txns : BeginPayment(t, Charge1)
  \/ \E t \in Txns, q \in {r \in StatusRequests : r.user_id = "u1"} :
       BeginStatusUpdate(t, q)
  \/ \E q \in {r \in PartnerRequests : "commission_percent" \in r.provided} :
       PartnerUpdate(q)

SpecLive ==
  Init /\ [][LiveNext]_vars /\ \A t \in Txns : SF_vars(StepOf(t))

\* ------------------------------------------------------------- properties
Quiescent == \A t \in Txns : txn[t].kind = "idle"

Referred(p) ==
  {u \in Users : crm_user_metadata[u].exists /\ crm_user_metadata[u].crm_partner_id = p}

ConvertedReferred(p) == {u \in Referred(p) : crm_user_metadata[u].converted_at # NULL}

Recorded(s) == \E r \in BagToSet(crm_payment) : r.stripe_payment_id = s

\* C1: whenever a user referred by a partner P goes from not converted to
\* converted, P.total_converted increases by exactly 1 in the same commit.
C1_ConversionCreditsOnce ==
  [][\A u \in Users :
       LET row == crm_user_metadata[u]
           p == row.crm_partner_id
       IN (/\ row.exists
           /\ row.converted_at = NULL
           /\ p \in Partners
           /\ crm_user_metadata'[u].converted_at # NULL)
          => crm_partner'[p].total_converted = crm_partner[p].total_converted + 1
    ]_vars

\* C2: once all transactions have committed, with u1 and u2 both referred by p1
\* (rate 10) and converted, each by its one payment (100 and 50), p1.total_revenue
\* is the sum of the two commissions and p1.total_converted is 2.
C2_CommissionAdditivity ==
  (/\ Quiescent
   /\ ConvertedReferred("p1") = {"u1", "u2"}
   /\ Recorded("s1") /\ Recorded("s3") /\ ~Recorded("s2"))
  => /\ crm_partner["p1"].total_revenue = 100 * 10 + 50 * 10
     /\ crm_partner["p1"].total_converted = 2

\* C3: after the two concurrent payments of 100 and 50 for u1 have committed (and
\* nobody else is referred by p1), u1 is converted, p1.total_revenue is 15.00 and
\* p1.total_converted is 1.
C3_RaceOutcome ==
  (/\ Quiescent
   /\ Recorded("s1") /\ Recorded("s2")
   /\ Referred("p1") = {"u1"})
  => /\ crm_user_metadata["u1"].converted_at # NULL
     /\ crm_partner["p1"].total_revenue = 1500
     /\ crm_partner["p1"].total_converted = 1

C5_NoRegression ==
  [][/\ \A t \in Txns :
          LET u == txn[t].user
              row == crm_user_metadata[u]
              s == txn[t].status
          IN (/\ txn[t].kind = "status"
              /\ txn'[t].kind = "idle"
              /\ s \in {"added", "active", "expired"}
              /\ row.exists)
             => IF row.subscription_status \in {"active", "expired"} /\ s = "added"
                THEN /\ raised' = "invalid_transition"
                     /\ crm_user_metadata' = crm_user_metadata
                ELSE /\ raised' = "none"
                     /\ crm_user_metadata' =
                          [crm_user_metadata EXCEPT ![u].subscription_status = s]
     /\ \A u \in Users :
          crm_user_metadata[u].subscription_status \in {"active", "expired"}
            => crm_user_metadata'[u].subscription_status # "added"
    ]_vars

\* a status update of an active row to added has just been rejected
C5_Witness ==
  /\ raised = "invalid_transition"
  /\ crm_user_metadata["u1"].subscription_status = "active"
  /\ Quiescent

\* the sweep as one atomic update of a row at a time
Swept(row, time) ==
  IF /\ row.exists
     /\ row.subscription_ends_at # NULL
     /\ row.subscription_ends_at < time
     /\ row.subscription_status = "active"
  THEN [row EXCEPT !.subscription_status = "expired"]
  ELSE row

\* C6: every sweeper run, alone, after another or concurrent with another, ends by
\* committing (never by an error), and its commit leaves the table as one atomic
\* sweep at its NOW() leaves it, a state that a further sweep at that time does
\* not change; a run writes a row only if that row is active when it locks it, so
\* no row is expired twice.
C6_IdempotentSweep ==
  [][/\ raised' = "none"
     /\ \A t \in Txns :
          (txn[t].kind = "sweep" /\ txn'[t].kind = "idle")
          => /\ crm_user_metadata' =
                  [u \in Users |-> Swept(crm_user_metadata[u], txn[t].start)]
             /\ \A u \in Users :
                  Swept(crm_user_metadata'[u], txn[t].start) = crm_user_metadata'[u]
     /\ \A t \in Txns : \A u \in Users :
          (txn'[t].kind = "sweep" /\ u \in txn'[t].umLock /\ u \notin txn[t].umLock)
          => /\ crm_user_metadata[u].subscription_status = "active"
             /\ txn'[t].umW[u].subscription_status = "expired"
    ]_vars

\* a run still has to visit a row it found that the other run has expired
C6_Witness ==
  \E t \in Txns : \E u \in Users :
    /\ txn[t].kind = "sweep"
    /\ u \in txn[t].cand
    /\ crm_user_metadata[u].subscription_status = "expired"

\* C7: in every committed state each partner's total_added is the number of rows
\* that refer to it, and the commit of an enrollment changes nothing of a partner
\* but the total_added of the partner referred to, by exactly 1.
C7_EnrollmentCounting ==
  /\ [](\A p \in Partners : crm_partner[p].total_added = Cardinality(Referred(p)))
  /\ [][\A t \in Txns :
          (txn[t].kind = "enroll" /\ txn[t].pc = "commit" /\ txn'[t].kind = "idle")
          => \A p \in Partners :
               crm_partner'[p] =
                 IF p = txn[t].pid
                 THEN [crm_partner[p] EXCEPT !.total_added = @ + 1]
                 ELSE crm_partner[p]
       ]_vars

\* one row refers to p1 and one row refers to no partner
C7_Witness ==
  /\ Quiescent
  /\ Referred("p1") = {"u1"}
  /\ Referred(NoPartner) = {"u2"}
  /\ crm_partner["p1"].total_added = 1

\* C9: in every committed state, for every partner P, P.total_converted is the
\* number of rows that refer to P and have converted_at set.
C9_LedgerConsistency ==
  \A p \in Partners :
    crm_partner[p].total_converted = Cardinality(ConvertedReferred(p))

\* C10: no payment reference is recorded twice, and an insertion rejected for its
\* reference changes no table.
C10_ReferenceOnce ==
  /\ [](\A r \in BagToSet(crm_payment) :
          /\ CopiesIn(r, crm_payment) = 1
          /\ \A q \in BagToSet(crm_payment) :
               q.stripe_payment_id = r.stripe_payment_id => q = r)
  /\ [][/\ raised' = "crm_payment_stripe_payment_id_key"
           => UNCHANGED <<crm_partner, crm_user_metadata, crm_payment>>
        /\ \A t \in Txns :
             ~(/\ txn[t].kind = "idle" /\ txn'[t].kind = "payment"
               /\ Recorded(txn'[t].sid))
        /\ \A t \in Txns :
             (/\ txn[t].kind = "payment" /\ txn[t].pc = "insert"
              /\ txn'[t] # txn[t]
              /\ Recorded(txn[t].sid))
             => /\ raised' = "crm_payment_stripe_payment_id_key"
                /\ txn'[t].kind = "idle"
       ]_vars

\* the second insertion of a recorded reference has just been rejected
C10_Witness ==
  /\ raised = "crm_payment_stripe_payment_id_key"
  /\ Recorded("s1")
  /\ CopiesIn(PaymentRow(Charge1), crm_payment) = 1

\* the payment row that transaction t has inserted
InsertedRow(t) ==
  [user_id |-> txn[t].user, amount |-> txn[t].amount,
   stripe_payment_id |-> txn[t].sid, paid_at |-> txn[t].paid_at]

\* t is a payment insertion, its row inserted, and this step ends it
PaymentEnds(t) ==
  /\ txn[t].kind = "payment"
  /\ txn[t].payW # EmptyBag
  /\ txn'[t].kind = "idle"

C12_ConversionEffect ==
  [][\A t \in Txns :
       LET u == txn[t].user
       IN (/\ PaymentEnds(t)
           /\ crm_user_metadata[u].exists
           /\ crm_user_metadata[u].converted_at = NULL
           /\ u \in txn[t].umLock)
          => /\ crm_user_metadata'[u].converted_at = txn[t].paid_at
             /\ crm_user_metadata'[u].subscription_status = "active"
    ]_vars

\* C14: when the first of the two racing payments of u1 commits, u1.converted_at
\* becomes its paid_at and p1 is credited with the commission on its amount; when
\* the second commits, neither changes.
C14_FirstCommitterWins ==
  [][\A t \in Txns :
       (PaymentEnds(t) /\ txn[t].user = "u1")
       => IF \E o \in Txns \ {t} : txn[o].kind = "payment" /\ txn[o].user = "u1"
          THEN /\ crm_user_metadata'["u1"].converted_at = txn[t].paid_at
               /\ crm_partner'["p1"].total_revenue =
                    crm_partner["p1"].total_revenue + txn[t].amount * 10
          ELSE /\ crm_user_metadata'["u1"].converted_at =
                    crm_user_metadata["u1"].converted_at
               /\ crm_partner'["p1"].total_revenue = crm_partner["p1"].total_revenue
    ]_vars

\* C18: a payment inserted for a user that has no User-Subscription row commits
\* without an error and is recorded, and its commit changes no User-Subscription
\* row and no partner row; no payment whose row is inserted ends with an error.
C18_PaymentWithoutRow ==
  [][\A t \in Txns :
       PaymentEnds(t)
       => /\ raised' = "none"
          /\ ~crm_user_metadata[txn[t].user].exists
             => /\ crm_payment' = crm_payment (+) SetToBag({InsertedRow(t)})
                /\ crm_user_metadata' = crm_user_metadata
                /\ crm_partner' = crm_partner
    ]_vars

\* the payment of u2 is recorded and u2 has no row
C18_Witness ==
  /\ Quiescent
  /\ Recorded("s3")
  /\ ~crm_user_metadata["u2"].exists
  /\ raised = "none"

\* every User-Subscription row, committed or written by a transaction in
\* flight, satisfies P
EveryRow(P(_)) ==
  \A u \in Users :
    /\ P(crm_user_metadata[u])
    /\ \A t \in Txns : P(txn[t].umW[u])

RefersToPartnerOrNone(r) ==
  r.exists => (r.crm_partner_id = NoPartner \/ r.crm_partner_id \in Partners)

HasStatusOfDomain(r) == r.subscription_status \in {"added", "active", "expired"}

\* C17: no User-Subscription row is ever created, not even inside a transaction,
\* that refers to a partner that does not exist; the insertion is rejected with
\* the referential error, and the rejection changes no table, so no partner's
\* total_added.
C17_UnknownPartnerRejected ==
  /\ []EveryRow(RefersToPartnerOrNone)
  /\ [][raised' = "crm_user_metadata_crm_partner_id_fkey"
          => UNCHANGED <<crm_partner, crm_user_metadata, crm_payment>>
       ]_vars

\* the enrollment that names the missing partner has just been rejected
C17_Witness ==
  /\ raised = "crm_user_metadata_crm_partner_id_fkey"
  /\ ~crm_user_metadata[Enroll4.user_id].exists
  /\ \A p \in Partners : crm_partner[p].total_added = Cardinality(Referred(p))

\* C20: the subscription_status of every row, committed or written by a
\* transaction in flight, is added, active or expired; an insert or update that
\* carries another value is rejected and the rejection changes no table.
C20_StatusDomain ==
  /\ []EveryRow(HasStatusOfDomain)
  /\ [][/\ raised' = "crm_user_metadata_subscription_status_check"
             => UNCHANGED <<crm_partner, crm_user_metadata, crm_payment>>
        /\ \A t \in Txns :
             (/\ txn[t].kind = "status"
              /\ txn[t].status \notin {"added", "active", "expired"}
              /\ txn'[t].kind = "idle")
             => crm_user_metadata' = crm_user_metadata
       ]_vars

\* an update of an existing row to 'trial' has just been rejected
C20_Witness ==
  /\ raised = "crm_user_metadata_subscription_status_check"
  /\ crm_user_metadata["u1"].exists
  /\ Quiescent

\* C13: once the converted_at of a user's committed row is set, no step - a
\* later payment with another paid_at, a sweep, a subscription-status check, an
\* admin user update - clears it or changes its value.
C13_ConvertedAtFrozen ==
  [][\A u \in Users :
       (crm_user_metadata[u].exists /\ crm_user_metadata[u].converted_at # NULL)
         => /\ crm_user_metadata'[u].exists
            /\ crm_user_metadata'[u].converted_at
                 = crm_user_metadata[u].converted_at
    ]_vars

\* u1 converted with the payment paid at 0; since then the payment paid at 1 was
\* recorded, the row expired and the admin moved the end of the subscription
C13_Witness ==
  /\ crm_user_metadata["u1"].converted_at = Charge1.paid_at
  /\ Recorded("s1") /\ Recorded("s2")
  /\ crm_user_metadata["u1"].subscription_status = "expired"
  /\ crm_user_metadata["u1"].subscription_ends_at = MaxTime + 1
  /\ Quiescent

\* the three aggregates of partner p in the committed table tbl
Aggregates(tbl, p) ==
  <<tbl[p].total_revenue, tbl[p].total_added, tbl[p].total_converted>>

\* C15: in every committed state each partner's total_revenue, total_added and
\* total_converted are at least 0, and from one committed state to the next -
\* across enrollments, payments, sweeps, status updates, partner updates and
\* password resets - none of the three decreases.
C15_AggregatesMonotone ==
  /\ [](\A p \in Partners : \A i \in 1..3 : Aggregates(crm_partner, p)[i] >= 0)
  /\ [][\A p \in Partners : \A i \in 1..3 :
          Aggregates(crm_partner', p)[i] >= Aggregates(crm_partner, p)[i]
       ]_vars

\* p1 was credited for an enrollment and a conversion, and has since been
\* updated by the admin, reset its password and seen its user expire
C15_Witness ==
  /\ crm_partner["p1"].total_added = 1
  /\ crm_partner["p1"].total_converted = 1
  /\ crm_partner["p1"].total_revenue > 0
  /\ crm_partner["p1"].password_hash = "h1"
  /\ ~crm_partner["p1"].is_active
  /\ crm_user_metadata["u1"].subscription_status = "expired"
  /\ Quiescent

\* C16: a step that changes one of the three aggregates of a partner is the
\* commit of a payment insertion or of an enrollment; the partner update, the
\* password reset, the admin user update, the subscription-status check and the
\* sweeper leave the aggregates of every partner as they are.
C16_OnlyTriggersChangeAggregates ==
  [][/\ (\E p \in Partners :
           Aggregates(crm_partner', p) # Aggregates(crm_partner, p))
          => \E t \in Txns : /\ txn[t].kind \in {"payment", "enroll"}
                             /\ txn[t].pc = "commit"
                             /\ txn'[t] = Idle
     /\ (\/ \E q \in PartnerRequests : PartnerUpdate(q)
         \/ \E h \in NewHashes : PasswordReset("p1", h)
         \/ \E q \in AdminUserRequests : AdminUserUpdate(q)
         \/ \E t \in Txns : BeginStatusCheck(t, "u1") \/ StatusCheckUpdate(t)
         \/ \E t \in Txns : BeginSweep(t) \/ SweepRow(t)
         \/ \E t \in Txns : txn[t].kind = "sweep" /\ Commit(t))
          => \A p \in Partners :
               Aggregates(crm_partner', p) = Aggregates(crm_partner, p)
    ]_vars

\* after the enrollment was counted, the admin changed the partner's commission
\* and the end of the user's subscription, the partner reset its password and
\* the user expired
C16_Witness ==
  /\ crm_partner["p1"].total_added = 1
  /\ crm_partner["p1"].commission_percent = 20
  /\ crm_partner["p1"].password_hash = "h1"
  /\ crm_user_metadata["u1"].subscription_status = "expired"
  /\ crm_user_metadata["u1"].subscription_ends_at = MaxTime + 1
  /\ Quiescent

\* C19: once the committed row of a user has subscription_status 'expired', no
\* step of a payment insertion and its triggers, of the sweeper, of the
\* subscription-status check or of the admin user update moves it to another
\* status.
C19_ExpiredIsTerminal ==
  [][\A u \in Users :
       (crm_user_metadata[u].exists
          /\ crm_user_metadata[u].subscription_status = "expired")
         => /\ crm_user_metadata'[u].exists
            /\ crm_user_metadata'[u].subscription_status = "expired"
    ]_vars

\* C28: when a payment insertion commits that converts a user without a
\* referring partner, the user's row has converted_at set and status active, the
\* payment is recorded, and no partner's total_revenue, total_added or
\* total_converted changes.
C28_UnreferredConversion ==
  [][\A t \in Txns :
       LET u == txn[t].user
       IN (/\ PaymentEnds(t)
           /\ crm_user_metadata[u].exists
           /\ crm_user_metadata[u].converted_at = NULL
           /\ crm_user_metadata[u].crm_partner_id = NoPartner
           /\ u \in txn[t].umLock)
          => /\ crm_user_metadata'[u].converted_at # NULL
             /\ crm_user_metadata'[u].subscription_status = "active"
             /\ CopiesIn(InsertedRow(t), crm_payment') = 1
             /\ \A p \in Partners :
                  Aggregates(crm_partner', p) = Aggregates(crm_partner, p)
    ]_vars

\* C29: in every committed state a User-Subscription row with converted_at set
\* has subscription_status active or expired, never added.
C29_ConvertedNotAdded ==
  \A u \in Users :
    (crm_user_metadata[u].exists /\ crm_user_metadata[u].converted_at # NULL)
      => crm_user_metadata[u].subscription_status \in {"active", "expired"}

\* C23: the commit of a sweeper run changes each row that is active with
\* subscription_ends_at earlier than the run's NOW() to expired and nothing else
\* of it; it leaves every other row (added with a passed end, active with a null
\* or later end, expired, absent) as it is, and with it every converted_at,
\* every partner row and the payments.
C23_SweepFrame ==
  [][\A t \in Txns :
       (txn[t].kind = "sweep" /\ txn[t].pc = "commit" /\ txn'[t].kind = "idle")
       => /\ \A u \in Users :
               LET row == crm_user_metadata[u]
               IN IF /\ row.exists
                     /\ row.subscription_status = "active"
                     /\ row.subscription_ends_at # NULL
                     /\ row.subscription_ends_at < txn[t].start
                  THEN crm_user_metadata'[u] =
                         [row EXCEPT !.subscription_status = "expired"]
                  ELSE crm_user_metadata'[u] = row
          /\ \A u \in Users :
               crm_user_metadata'[u].converted_at = crm_user_metadata[u].converted_at
          /\ crm_partner' = crm_partner
          /\ crm_payment' = crm_payment
    ]_vars

\* a run is about to commit the expiry of u1, which is active and past its end,
\* and has left alone u2, which is active without an end
C23_Witness ==
  \E t \in Txns :
    /\ txn[t].kind = "sweep" /\ txn[t].pc = "commit"
    /\ txn[t].umLock = {"u1"}
    /\ crm_user_metadata["u1"].subscription_status = "active"
    /\ crm_user_metadata["u2"].subscription_status = "active"
    /\ crm_user_metadata["u2"].subscription_ends_at = NULL

\* C26: when the trigger applies its update of the partner's aggregates, the
\* commission it adds is the payment's amount times the commission_percent the
\* partner's row holds at that moment: no partner update has changed the rate
\* since the trigger looked it up.
C26_RateAtCredit ==
  [][\A t \in Txns :
       LET p == txn[t].pid
       IN (/\ txn[t].kind = "payment" /\ txn[t].pc = "credit_partner"
           /\ txn'[t].pc = "commit"
           /\ p \in txn'[t].pLock)
          => txn'[t].pW[p].total_revenue
               = crm_partner[p].total_revenue
                   + Commission(txn[t].amount, crm_partner[p].commission_percent)
    ]_vars

\* C30: when the subscription-status check writes expired to a user's row, the
\* row's subscription_ends_at is, at that moment, null or earlier than now.
C30_ExpiredOnlyWhenPastEnd ==
  [][\A t \in Txns :
       LET u == txn[t].user
       IN (/\ txn[t].kind = "check" /\ txn'[t].kind = "idle"
           /\ crm_user_metadata'[u].subscription_status = "expired"
           /\ crm_user_metadata[u].subscription_status # "expired")
          => \/ crm_user_metadata[u].subscription_ends_at = NULL
             \/ crm_user_metadata[u].subscription_ends_at < now
    ]_vars

InFlight(t) == txn[t].kind # "idle"

\* C25: while a transaction is in flight some transaction in flight can take its
\* next step (no state has every transaction waiting), and every transaction in
\* flight eventually ends, by commit or by abort.
C25_NoDeadlock ==
  /\ []((\E t \in Txns : InFlight(t))
          => \E t \in Txns : InFlight(t) /\ ENABLED StepOf(t))
  /\ \A t \in Txns : InFlight(t) ~> ~InFlight(t)

\* a payment that has converted its user waits for the partner's row, which the
\* other transaction holds locked
C25_Witness ==
  \E t \in Txns : \E o \in Txns \ {t} :
    /\ txn[t].pc = "credit_partner"
    /\ txn[t].pid \in txn[o].pLock

\* the email is that of a committed row, whatever its case
HeldIgnoringCase(email) ==
  \E u \in Users :
    /\ crm_user_metadata[u].exists
    /\ Lower(crm_user_metadata[u].email) = Lower(email)

\* C22: no two User-Subscription rows have emails that are equal ignoring case;
\* a step creates a row only for an email no row held, whatever its case, and
\* each partner's total_added stays the number of rows referring to it, so an
\* attempt for an email that differs only in case from a row's creates no row
\* and increments no total_added.
C22_EmailUniqueIgnoringCase ==
  /\ [](\A u \in Users : \A v \in Users \ {u} :
          (crm_user_metadata[u].exists /\ crm_user_metadata[v].exists)
            => Lower(crm_user_metadata[u].email) # Lower(crm_user_metadata[v].email))
  /\ [](\A p \in Partners : crm_partner[p].total_added = Cardinality(Referred(p)))
  /\ [][\A u \in Users :
          (~crm_user_metadata[u].exists /\ crm_user_metadata'[u].exists)
            => ~HeldIgnoringCase(crm_user_metadata'[u].email)
       ]_vars

\* the insert for A@x.com of a call that passed the check was rejected by the
\* unique constraint: the row of a@x.com was committed in between
C22_Witness ==
  /\ raised = "crm_user_metadata_email_key"
  /\ \E r \in Reqs : prov[r].pc = "cleanup" /\ prov[r].email = "A@x.com"
  /\ \E u \in Users : /\ crm_user_metadata[u].exists
                      /\ crm_user_metadata[u].email = "a@x.com"
                      /\ auth_users[u].email = "a@x.com"

\* C24: the insert of a provisioning call for an email that no row and no other
\* call holds is accepted and writes one row in status added, referring to the
\* partner of a Partner-Token and to no partner under an Admin-Token; the commit
\* of an insert creates that row and raises the total_added of the partner it
\* refers to by exactly 1 and no other.
C24_ProvisioningEffect ==
  [][/\ \A r \in Reqs :
          (/\ prov[r].pc = "insert" /\ prov'[r].pc # "insert"
           /\ ~HeldIgnoringCase(prov[r].email)
           /\ \A o \in Reqs \ {r} :
                prov[o].pc = "idle" \/ Lower(prov[o].email) # Lower(prov[r].email))
          => /\ prov'[r].pc = "inserting"
             /\ LET row == txn'[prov'[r].slot].umW[prov[r].authUserId]
                IN /\ row.exists
                   /\ row.subscription_status = "added"
                   /\ row.crm_partner_id =
                        IF prov[r].role = "partner" THEN prov[r].sub ELSE NoPartner
     /\ \A t \in Txns :
          (txn[t].kind = "enroll" /\ txn[t].pc = "commit" /\ txn'[t].kind = "idle")
          => /\ crm_user_metadata'[txn[t].user] = txn[t].umW[txn[t].user]
             /\ \A u \in Users \ {txn[t].user} :
                  crm_user_metadata'[u] = crm_user_metadata[u]
             /\ \A p \in Partners :
                  crm_partner'[p].total_added =
                    crm_partner[p].total_added
                      + (IF p = txn[t].umW[txn[t].user].crm_partner_id THEN 1 ELSE 0)
    ]_vars

\* C21: an auth user without a User-Subscription row belongs to a call of
\* createUserAtomically that has not returned yet: once the call has returned,
\* with success or with failure, the auth user it created has its row or has
\* been removed.
C21_AuthUserHasRow ==
  \A u \in Users :
    (auth_users[u].exists /\ ~crm_user_metadata[u].exists)
      => \E r \in Reqs : /\ prov[r].pc \in {"insert", "inserting", "cleanup"}
                         /\ prov[r].authUserId = u

\* C27: the commit of a payment that credits a partner adds to total_revenue
\* the payment's amount times the commission_percent the trigger read and 1 to
\* total_converted, whatever the partner's commission_slabs, and changes nothing
\* else of the partner; commission_slabs itself is left as it is.
C27_FlatRate ==
  [][\A t \in Txns : \A p \in Partners :
       (PaymentEnds(t) /\ p \in txn[t].pLock)
       => /\ txn[t].rate \in {10, 20}
          /\ crm_partner'[p] =
               [crm_partner[p] EXCEPT
                  !.total_revenue = @ + txn[t].amount * txn[t].rate,
                  !.total_converted = @ + 1]
    ]_vars

\* a payment is about to credit a partner that has a schedule of tiers
C27_Witness ==
  \E t \in Txns :
    /\ txn[t].kind = "payment" /\ txn[t].pc = "commit"
    /\ "p1" \in txn[t].pLock
    /\ crm_partner["p1"].commission_slabs = "tiers"

====
